---- MODULE Spec2Model ----
(***************************************************************************)
(* Model of the PCCS colour trainer (src/src/App.jsx).                     *)
(*                                                                         *)
(* The quiz part is the React component QuizView with its child Flashcard: *)
(* the component state (useState cells), the mount effect that loads the   *)
(* shuffled deck, the two event handlers handleGuess and nextCard, the     *)
(* memoised answer options of Flashcard, and the tab switch of App that    *)
(* mounts and unmounts QuizView.  One action is one committed React        *)
(* update: all setState calls of a handler are batched into one render.    *)
(***************************************************************************)
EXTENDS Integers, Sequences, FiniteSets, TLC

\* ---------------------------------------------------------------- bounds

\* number of catalogue tones / hues the quiz deck is built from
NumTones == 5
NumHues == 1
\* answers submitted in one session before the model stops answering
MaxAnswers == 6
\* number of rotations enumerated for one random-comparator sort
MaxOrders == 1
\* answers submitted in one session on the deck of the whole catalogues
MaxFullAnswers == 2
\* user invocations of an advisory operation in one run
MaxCalls == 2
\* answers submitted in a quiz session in which design advice is asked
MaxAdviceAnswers == 2
\* hues in the deck of a quiz session in which design advice is asked
AdviceHues == 2

\* ------------------------------------------------------------ catalogues

TONES ==
  << [id |-> "v",   s |-> 100, l |-> 50],
     [id |-> "b",   s |-> 85,  l |-> 65],
     [id |-> "s",   s |-> 70,  l |-> 45],
     [id |-> "dp",  s |-> 80,  l |-> 30],
     [id |-> "lt",  s |-> 55,  l |-> 75],
     [id |-> "sf",  s |-> 40,  l |-> 60],
     [id |-> "d",   s |-> 40,  l |-> 45],
     [id |-> "dk",  s |-> 50,  l |-> 25],
     [id |-> "p",   s |-> 25,  l |-> 88],
     [id |-> "ltg", s |-> 15,  l |-> 70],
     [id |-> "g",   s |-> 15,  l |-> 45],
     [id |-> "dkg", s |-> 10,  l |-> 25] >>

HUES ==
  << [id |-> 2,  h |-> 355],
     [id |-> 4,  h |-> 15],
     [id |-> 6,  h |-> 35],
     [id |-> 8,  h |-> 50],
     [id |-> 10, h |-> 75],
     [id |-> 12, h |-> 120],
     [id |-> 14, h |-> 160],
     [id |-> 16, h |-> 180],
     [id |-> 18, h |-> 210],
     [id |-> 20, h |-> 260],
     [id |-> 22, h |-> 290],
     [id |-> 24, h |-> 320] >>

Min(a, b) == IF a < b THEN a ELSE b
Max(a, b) == IF a > b THEN a ELSE b

\* the catalogue prefixes the bounded quiz works on
QuizTones == SubSeq(TONES, 1, Min(NumTones, Len(TONES)))
QuizHues == SubSeq(HUES, 1, Min(NumHues, Len(HUES)))

\* -------------------------------------------------------- pure functions

\* generateColor with the lightness test including 50
generateColorInclusive(tone, hue) ==
  LET adjustedL == IF (hue.h > 30 /\ hue.h < 60) /\ tone.l <= 50
                   THEN tone.l + 5 ELSE tone.l
  IN [id |-> <<tone.id, hue.id>>,
      toneId |-> tone.id,
      css |-> [h |-> hue.h, s |-> tone.s, l |-> adjustedL]]

\* generateColor: the rendered colour is kept as its three hsl() components
generateColor(tone, hue) ==
  LET adjustedL == IF (hue.h > 30 /\ hue.h < 60) /\ tone.l < 50
                   THEN tone.l + 5 ELSE tone.l
  IN [id |-> <<tone.id, hue.id>>,
      toneId |-> tone.id,
      css |-> [h |-> hue.h, s |-> tone.s, l |-> adjustedL]]

\* a deck that pairs the k-th tone with the k-th hue instead of nesting the loops
GenerateDeckZipped(tones, hues) ==
  [k \in 1..(Len(tones) * Len(hues)) |->
     generateColor(tones[((k - 1) % Len(tones)) + 1],
                   hues[((k - 1) % Len(hues)) + 1])]

\* generateFullDeck over given catalogues: tones outer loop, hues inner loop
GenerateDeck(tones, hues) ==
  [k \in 1..(Len(tones) * Len(hues)) |->
     generateColor(tones[((k - 1) \div Len(hues)) + 1],
                   hues[((k - 1) % Len(hues)) + 1])]

\* Array.prototype.slice(0, n)
SliceFront(seq, n) == SubSeq(seq, 1, Min(n, Len(seq)))

\* Array.prototype.slice(-n)
SliceBack(seq, n) == SubSeq(seq, Max(1, Len(seq) - n + 1), Len(seq))

Reverse(seq) == [i \in 1..Len(seq) |-> seq[Len(seq) + 1 - i]]
Rotate(seq, k) == [i \in 1..Len(seq) |-> seq[((i - 1 + k) % Len(seq)) + 1]]

\* seq.sort(() => 0.5 - Math.random()): the comparator is random, so the
\* result is some permutation of seq.  The model enumerates as possible
\* outcomes the first MaxOrders rotations of seq and their reversals.
SortRandom(seq) ==
  IF seq = <<>> THEN {<<>>}
  ELSE LET rotations == {Rotate(seq, k) : k \in 0..(Min(MaxOrders, Len(seq)) - 1)}
       IN rotations \cup {Reverse(r) : r \in rotations}

\* ------------------------------------------------ handler building blocks

\* handleGuess: const isCorrect = toneId === currentCard.toneId
IsCorrectAlways(toneId, card) == TRUE
IsCorrect(toneId, card) == toneId = card.toneId

\* handleGuess: setScore(s => s + 10)
AddPointsOne(s) == s + 1
AddPoints(s) == s + 10

\* handleGuess: const newStreak = s + 1
NextStreakStuck(s) == 1
NextStreak(s) == s + 1

\* handleGuess: setBestStreak(b => Math.max(b, newStreak))
NewBestOverwrite(b, newStreak) == newStreak
NewBest(b, newStreak) == Max(b, newStreak)

\* handleGuess: setStreak(0) on a wrong answer
StreakAfterMissKept(s) == s
StreakAfterMiss(s) == 0

\* handleGuess: setHistory(h => [...h.slice(-4), outcome])
PushHistoryFive(h, outcome) == SliceBack(h, 5) \o <<outcome>>
PushHistory(h, outcome) == SliceBack(h, 4) \o <<outcome>>

\* nextCard: setCurrentCardIndex(prev => (prev + 1) % deck.length)
NextIndexNoWrap(prev, len) == prev + 1
NextIndexStuck(prev, len) == prev
NextIndexOffByOne(prev, len) == (prev + 1) % (len + 1)
NextIndex(prev, len) == (prev + 1) % len

\* TONES.find(t => t.id === toneId): the tone, or undefined
NoTone == [id |-> "undefined", s |-> 0, l |-> 0]
FindTone(tones, toneId) ==
  IF \E i \in 1..Len(tones) : tones[i].id = toneId
  THEN tones[CHOOSE i \in 1..Len(tones) :
               tones[i].id = toneId /\ \A j \in 1..(i - 1) : tones[j].id # toneId]
  ELSE NoTone

\* the memo body without the filter that removes the correct tone
OptionsUnfiltered(tones, card) ==
  LET correctTone == FindTone(tones, card.toneId)
  IN UNION { LET distractors == SliceFront(shuffled, 3)
                 four == distractors \o <<correctTone>>
             IN { [i \in 1..Len(o) |-> o[i].id] : o \in SortRandom(four) }
           : shuffled \in SortRandom(tones) }

\* Flashcard's useMemo body: the possible option lists for a card, each the
\* list of the ids of the four offered tones in display order
Options(tones, card) ==
  LET others == SelectSeq(tones, LAMBDA t : t.id # card.toneId)
      correctTone == FindTone(tones, card.toneId)
  IN UNION { LET distractors == SliceFront(shuffled, 3)
                 four == distractors \o <<correctTone>>
             IN { [i \in 1..Len(o) |-> o[i].id] : o \in SortRandom(four) }
           : shuffled \in SortRandom(others) }

\* ---------------------------------------------------------------- settings

\* a string field that is not there (undefined)
Absent == "<absent>"
\* import.meta.env without any VITE_* value
NoEnv == [apiKey |-> Absent, baseUrl |-> Absent, model |-> Absent]
\* localStorage.getItem returns null: nothing stored under the key
NoEntry == [kind |-> "null"]
\* getSettings has not been called yet
NotResolved == [outcome |-> "none"]

Fields == {"baseUrl", "apiKey", "model"}

\* JavaScript truthiness of an optional string: undefined and '' are falsy,
\* every other string, a whitespace-only one included, is truthy
Truthy(x) == x # Absent /\ x # ""
\* a || b
Or(a, b) == IF Truthy(a) THEN a ELSE b

\* JSON.stringify of a settings object: fields that are undefined are left out
Stringify(form) == [kind |-> "object", rec |-> form]

\* JSON.parse of the stored text: throws on text that is not JSON, and
\* yields null, a number or an object otherwise
JsonParse(st) ==
  CASE st.kind = "invalid" -> [threw |-> TRUE, error |-> "SyntaxError"]
    [] st.kind = "jsonNull" -> [threw |-> FALSE, type |-> "null"]
    [] st.kind = "jsonNumber" -> [threw |-> FALSE, type |-> "number"]
    [] st.kind = "object" -> [threw |-> FALSE, type |-> "object", rec |-> st.rec]

\* parsed.field: a TypeError on null, undefined on a number
Property(parsed, f) == IF parsed.type = "object" THEN parsed.rec[f] ELSE Absent

\* the hard-coded fallbacks of App.jsx's getSettings
AppFallback ==
  [baseUrl |-> "https://models.inference.ai.azure.com",
   apiKey |-> "",
   model |-> "gpt-4o"]

\* the hard-coded fallbacks of SeasonalColorAnalysis.jsx's getSettings
SeasonalFallback ==
  [baseUrl |-> "https://generativelanguage.googleapis.com/v1beta/openai/",
   apiKey |-> "",
   model |-> "gemini-1.5-flash"]

\* getSettings that returns the stored record as it is once one is stored
GetSettingsPerRecord(envv, st, fallback) ==
  LET envValues == [f \in Fields |-> Or(envv[f], fallback[f])]
      saved == st.kind \notin {"null", "empty"}
  IN IF saved
     THEN LET parsed == JsonParse(st)
          IN IF parsed.threw
             THEN [outcome |-> "threw", error |-> parsed.error]
             ELSE IF parsed.type = "null"
             THEN [outcome |-> "threw", error |-> "TypeError"]
             ELSE [outcome |-> "returned",
                   settings |-> [f \in Fields |-> Or(Property(parsed, f), "")]]
     ELSE [outcome |-> "returned", settings |-> envValues]

\* the body shared by the two getSettings functions: the result is either the
\* returned settings or the exception the call ends with
GetSettings(envv, st, fallback) ==
  LET envValues == [f \in Fields |-> Or(envv[f], fallback[f])]
      saved == st.kind \notin {"null", "empty"}
  IN IF saved
     THEN LET parsed == JsonParse(st)
          IN IF parsed.threw
             THEN [outcome |-> "threw", error |-> parsed.error]
             ELSE IF parsed.type = "null"
             THEN [outcome |-> "threw", error |-> "TypeError"]
             ELSE [outcome |-> "returned",
                   settings |-> [f \in Fields |->
                                   Or(Property(parsed, f), envValues[f])]]
     ELSE [outcome |-> "returned", settings |-> envValues]

\* getSettings of App.jsx and of SeasonalColorAnalysis.jsx
AppGetSettings(envv, st) == GetSettings(envv, st, AppFallback)
SeasonalGetSettings(envv, st) == GetSettings(envv, st, SeasonalFallback)

\* the build-time configurations, stored entries and settings forms looked at
EnvValues == {Absent, "", "env-value"}
Envs == [Fields -> EnvValues]
StoredValues == {Absent, "", " ", "saved-value"}
StoredRecords == [Fields -> StoredValues]
StorageSnapshots ==
  {NoEntry, [kind |-> "empty"], [kind |-> "invalid"], [kind |-> "jsonNull"],
   [kind |-> "jsonNumber"]}
    \cup {Stringify(r) : r \in StoredRecords}
Forms == [Fields -> {"", " ", "saved-value"}]

\* ------------------------------------------------------------ advisory calls

\* null, as a useState cell or a parsed JSON value holds it
Null == [kind |-> "null"]

\* a string by what JSON.parse makes of it: text that is no JSON, the JSON
\* text of null, the JSON text of an object, or any of these inside a
\* ```json ... ``` fence
PlainText(t) == [kind |-> "invalid", text |-> t]
JsonNullText == [kind |-> "jsonNull"]
ObjectText(rec) == [kind |-> "object", rec |-> rec]
Fenced(text) == [kind |-> "fenced", inner |-> text]
\* choices?.[0]?.message?.content of a body that has none, or an empty one
NoContent == [kind |-> "absent"]

\* the objects a model may answer with: the mood-matching shape with a tone
\* id, and the seasonal shape with or without its nested fields
PayloadFields == {"id", "reasoning", "season", "characteristics", "palette"}
MatchPayload(id) ==
  [id |-> id, reasoning |-> "why", season |-> Absent,
   characteristics |-> Absent, palette |-> Absent]
SeasonPayload(characteristics, palette) ==
  [id |-> Absent, reasoning |-> "why", season |-> "Deep Winter",
   characteristics |-> characteristics, palette |-> palette]

Contents ==
  {NoContent,
   PlainText("advice"),
   JsonNullText,
   ObjectText(MatchPayload(TONES[1].id)),
   Fenced(ObjectText(MatchPayload(TONES[2].id))),
   ObjectText(MatchPayload("unknown")),
   ObjectText(SeasonPayload("present", "present")),
   ObjectText(SeasonPayload("present", Absent))}

\* what fetch ends with: a rejected promise (network failure), a response
\* that is not ok (non-2xx status), or an ok response with its content
Responses ==
  {[kind |-> "rejected"], [kind |-> "response", ok |-> FALSE]}
    \cup {[kind |-> "response", ok |-> TRUE, content |-> c] : c \in Contents}

\* the strings callOpenAI returns instead of the model's text
NoKeyText == PlainText("error: no API key detected")
ErrorText(message) == [kind |-> "invalid", text |-> "error", message |-> message]
NoReplyText == PlainText("no response could be produced")
\* the string getAdvice shows when callOpenAI throws
CannotReachText == PlainText("cannot reach the AI")

\* the fetch of one callOpenAI call, counted
FetchTwice(n) == n + 2
Fetch(n) == n + 1

\* callOpenAI from its fetch on: the string it returns; a rejected fetch and
\* a response that is not ok end in the catch block, which returns a string
CallOpenAIReturn(response) ==
  IF response.kind = "rejected" THEN ErrorText("Failed to fetch")
  ELSE IF ~response.ok THEN ErrorText("API Error")
  ELSE IF response.content = NoContent THEN NoReplyText
  ELSE response.content

\* text.replace(/```json|```/g, '').trim()
StripFences(text) == IF text.kind = "fenced" THEN text.inner ELSE text

\* ' '.trim() is ''
Trim(text) == IF text = " " THEN "" ELSE text

\* the error result of handleMatch
MatchError == [kind |-> "error", error |-> "no suitable tone found"]

\* handleMatch from the returned text on: the value handed to setResult
MatchResultOf(rawText) ==
  LET data == JsonParse(StripFences(rawText))
  IN IF data.threw THEN MatchError
     ELSE IF data.type = "null" THEN MatchError
     ELSE LET tone == FindTone(TONES, Property(data, "id"))
          IN IF tone # NoTone
             THEN [kind |-> "tone", tone |-> tone,
                   reasoning |-> Property(data, "reasoning")]
             ELSE MatchError

\* the messages analyzeImage and handleImageUpload hand to setError
NoError == "null"
NoKeyError == "configure your API key in the settings first"
NoImageError == "upload an image first"
TooLargeError == "file too large"
AnalysisFailed == "analysis failed"

NoImage == "null"
\* the files a user may pick: one within the 4MB limit and one above it
Files == {[size |-> "small", data |-> "photo"], [size |-> "large", data |-> "poster"]}

\* analyzeImage from its fetch on: what it hands to setResult or setError
AnalysisOutcome(response) ==
  IF response.kind = "rejected" THEN [set |-> "error", error |-> AnalysisFailed]
  ELSE IF ~response.ok THEN [set |-> "error", error |-> AnalysisFailed]
  ELSE IF response.content = NoContent
  THEN [set |-> "error", error |-> AnalysisFailed]
  ELSE LET parsed == JsonParse(StripFences(response.content))
       IN IF parsed.threw THEN [set |-> "error", error |-> AnalysisFailed]
          ELSE IF parsed.type = "object"
          THEN [set |-> "result", result |-> parsed.rec]
          \* the JSON text of null parses to null
          ELSE [set |-> "result", result |-> Null]

\* the result page reads result.characteristics.undertone and
\* result.palette.map: a TypeError while rendering when either is undefined
ResultRenderThrows(res) ==
  /\ res # Null
  /\ \/ res.characteristics = Absent
     \/ res.palette = Absent

\* an unmount after which a stale answer would still reach the state
UnmountedKept(cs, ops) == cs

\* the calls of the components that are unmounted: their setState calls no
\* longer reach any state
Unmounted(cs, ops) ==
  {IF c.op \in ops THEN [c EXCEPT !.live = FALSE] ELSE c : c \in cs}

\* ------------------------------------------------------------------ state

VARIABLES
  currentTab,        \* App: 'learn' | 'quiz' | 'ai'
  effectPending,     \* QuizView is mounted and its mount effect has not run yet
  deck,              \* QuizView state
  currentCardIndex,
  showAnswer,
  selectedOption,
  score,
  streak,
  bestStreak,
  history,
  options,           \* Flashcard: the memoised option list
  memoCard,          \* Flashcard: the card the memo was computed for ([card] dependency)
  answers,           \* history variable: every outcome submitted in this session, in order
  advances,          \* history variable: number of nextCard calls in this session
  presented,         \* history variable: ids of the cards shown in this session, in order
  priorSession,      \* history variable: an earlier QuizView mount has scored answers
  env,               \* import.meta.env: the build-time VITE_* values
  storage,           \* localStorage entry 'pccs_app_settings'
  resolved,          \* outcome of the latest getSettings() call
  root,              \* the component the page mounts: App or SeasonalColorAnalysis
  tipKey,            \* Flashcard: key of the AIContextButton wrapper
  adviceLoading,     \* AIContextButton state
  tip,
  input,             \* AILabView state
  matchLoading,
  matchResult,
  image,             \* SeasonalColorAnalysis state
  previewUrl,
  loading,
  result,
  error,
  reads,             \* files a FileReader is reading
  calls,             \* fetches in flight
  invocations,       \* history variable: advisory operations the user invoked
  requests           \* history variable: fetches issued

quizVars == <<currentTab, effectPending, deck, currentCardIndex, showAnswer,
              selectedOption, score, streak, bestStreak, history, options,
              memoCard, answers, advances, presented, priorSession>>

settingsVars == <<env, storage, resolved>>

adviceVars == <<tipKey, adviceLoading, tip>>
matchVars == <<input, matchLoading, matchResult>>
seasonalVars == <<image, previewUrl, loading, result, error, reads>>
callVars == <<calls, invocations, requests>>
advisoryVars == <<root, adviceVars, matchVars, seasonalVars, callVars>>

vars == <<quizVars, settingsVars, advisoryVars>>

Tabs == {"learn", "quiz", "ai"}
NoOption == "null"
NoCard == [id |-> <<"undefined", 0>>, toneId |-> "undefined",
           css |-> [h |-> 0, s |-> 0, l |-> 0]]

\* deck[i] as JavaScript reads it: undefined outside the array
CardAt(d, i) == IF i \in 0..(Len(d) - 1) THEN d[i + 1] ELSE NoCard
CurrentCard == CardAt(deck, currentCardIndex)

\* the useState initial values of a freshly mounted QuizView / Flashcard
QuizInitial ==
  /\ deck = <<>>
  /\ currentCardIndex = 0
  /\ showAnswer = FALSE
  /\ selectedOption = NoOption
  /\ score = 0
  /\ streak = 0
  /\ bestStreak = 0
  /\ history = <<>>
  /\ options = <<>>
  /\ memoCard = NoCard
  /\ answers = <<>>
  /\ advances = 0
  /\ presented = <<>>

\* the useState initial values of AIContextButton, AILabView and
\* SeasonalColorAnalysis, and no call made yet
AdvisoryInitial ==
  /\ tipKey = 0
  /\ adviceLoading = FALSE
  /\ tip = Null
  /\ input = ""
  /\ matchLoading = FALSE
  /\ matchResult = Null
  /\ image = NoImage
  /\ previewUrl = NoImage
  /\ loading = FALSE
  /\ result = Null
  /\ error = NoError
  /\ reads = {}
  /\ calls = {}
  /\ invocations = 0
  /\ requests = 0

\* the application right after it is opened, on the 'learn' tab
AppInitial ==
  /\ root = "App"
  /\ currentTab = "learn"
  /\ effectPending = FALSE
  /\ priorSession = FALSE
  /\ QuizInitial
  /\ AdvisoryInitial

Init ==
  /\ AppInitial
  /\ env = NoEnv
  /\ storage = NoEntry
  /\ resolved = NotResolved

\* QuizView's render: the loading placeholder while the deck is empty,
\* the score bar and the Flashcard otherwise
QuizViewRenderUnguarded(d) == "flashcard"
QuizViewRender(d) == IF Len(d) = 0 THEN "loading" ELSE "flashcard"

\* QuizView renders the Flashcard only once the deck is loaded
QuizRendered ==
  currentTab = "quiz" /\ ~effectPending /\ QuizViewRender(deck) = "flashcard"

\* Flashcard shows the option buttons only when the answer is hidden,
\* and the next-card button only when it is shown
OptionButtonsAlways(shown) == TRUE
OptionButtonsShown(shown) == ~shown
NextButtonAlways(shown) == TRUE
NextButtonHidden(shown) == FALSE
NextButtonShown(shown) == shown

\* the isCorrect prop QuizView hands to the Flashcard for the result display
ShownCorrect == selectedOption = CurrentCard.toneId

\* ---------------------------------------------------------------- actions

\* the tab button if QuizView stayed mounted (hidden) across tab changes
SetTabKeepAlive(t) ==
  /\ ~effectPending
  /\ t # currentTab
  /\ currentTab' = t
  /\ effectPending' = (t = "quiz" /\ Len(deck) = 0)
  /\ priorSession' = (priorSession \/ (currentTab = "quiz" /\ Len(answers) > 0))
  /\ UNCHANGED <<deck, currentCardIndex, showAnswer, selectedOption, score,
                 streak, bestStreak, history, options, memoCard, answers,
                 advances, presented>>
  /\ tipKey' = 0
  /\ adviceLoading' = FALSE
  /\ tip' = Null
  /\ input' = ""
  /\ matchLoading' = FALSE
  /\ matchResult' = Null
  /\ calls' = Unmounted(calls, {"advice", "match"})
  /\ UNCHANGED <<root, seasonalVars, invocations, requests>>
  /\ UNCHANGED settingsVars

\* Header tab button: leaving the quiz tab unmounts QuizView and drops its
\* state, entering it mounts a fresh QuizView whose effect is then pending
SetTab(t) ==
  /\ ~effectPending
  /\ t # currentTab
  /\ currentTab' = t
  /\ effectPending' = (t = "quiz")
  /\ deck' = <<>>
  /\ currentCardIndex' = 0
  /\ showAnswer' = FALSE
  /\ selectedOption' = NoOption
  /\ score' = 0
  /\ streak' = 0
  /\ bestStreak' = 0
  /\ history' = <<>>
  /\ options' = <<>>
  /\ memoCard' = NoCard
  /\ answers' = <<>>
  /\ advances' = 0
  /\ presented' = <<>>
  /\ priorSession' = (priorSession \/ Len(answers) > 0)
  /\ tipKey' = 0
  /\ adviceLoading' = FALSE
  /\ tip' = Null
  /\ input' = ""
  /\ matchLoading' = FALSE
  /\ matchResult' = Null
  /\ calls' = Unmounted(calls, {"advice", "match"})
  /\ UNCHANGED <<root, seasonalVars, invocations, requests>>
  /\ UNCHANGED settingsVars

\* the mount effect: setDeck(generateFullDeck().sort(random)); the render
\* that follows mounts the Flashcard, which computes its options
LoadDeckOf(tones, hues) ==
  /\ currentTab = "quiz"
  /\ effectPending
  /\ effectPending' = FALSE
  /\ \E d \in SortRandom(GenerateDeck(tones, hues)) :
       /\ deck' = d
       /\ IF Len(d) # 0
          THEN /\ memoCard' = CardAt(d, currentCardIndex)
               /\ options' \in Options(tones, CardAt(d, currentCardIndex))
               /\ presented' = Append(presented, CardAt(d, currentCardIndex).id)
          ELSE UNCHANGED <<memoCard, options, presented>>
  /\ UNCHANGED <<currentTab, currentCardIndex, showAnswer, selectedOption,
                 score, streak, bestStreak, history, answers, advances,
                 priorSession>>
  /\ tipKey' = IF Len(deck') # 0 THEN tipKey + 1 ELSE tipKey
  /\ UNCHANGED <<root, adviceLoading, tip, matchVars, seasonalVars, callVars>>
  /\ UNCHANGED settingsVars

\* the bounded quiz loads the deck of the catalogue prefixes
LoadDeck == LoadDeckOf(QuizTones, QuizHues)

\* handleGuess, reached through an option button
HandleGuess(toneId) ==
  /\ QuizRendered
  /\ OptionButtonsShown(showAnswer)
  /\ Len(answers) < MaxAnswers
  /\ LET currentCard == CurrentCard
         isCorrect == IsCorrect(toneId, currentCard)
     IN /\ selectedOption' = toneId
        /\ showAnswer' = TRUE
        /\ IF isCorrect
           THEN /\ score' = AddPoints(score)
                /\ streak' = NextStreak(streak)
                /\ bestStreak' = NewBest(bestStreak, NextStreak(streak))
                /\ history' = PushHistory(history, TRUE)
           ELSE /\ streak' = StreakAfterMiss(streak)
                /\ history' = PushHistory(history, FALSE)
                /\ UNCHANGED <<score, bestStreak>>
        /\ answers' = Append(answers, isCorrect)
  /\ UNCHANGED <<currentTab, effectPending, deck, currentCardIndex, options,
                 memoCard, advances, presented, priorSession>>
  /\ UNCHANGED advisoryVars
  /\ UNCHANGED settingsVars

\* nextCard if it also shuffled the deck again
NextCardReshuffling(tones) ==
  /\ QuizRendered
  /\ NextButtonShown(showAnswer)
  /\ showAnswer' = FALSE
  /\ selectedOption' = NoOption
  /\ currentCardIndex' = NextIndex(currentCardIndex, Len(deck))
  /\ deck' \in SortRandom(deck)
  /\ LET card == CardAt(deck', currentCardIndex')
     IN /\ memoCard' = card
        /\ options' \in Options(tones, card)
        /\ presented' = Append(presented, card.id)
  /\ advances' = advances + 1
  /\ UNCHANGED <<currentTab, effectPending, score, streak, bestStreak,
                 history, answers, priorSession>>
  /\ tipKey' = IF memoCard' # memoCard THEN tipKey + 1 ELSE tipKey
  /\ adviceLoading' = FALSE
  /\ tip' = Null
  /\ calls' = Unmounted(calls, {"advice"})
  /\ UNCHANGED <<root, matchVars, seasonalVars, invocations, requests>>
  /\ UNCHANGED settingsVars

\* nextCard, reached through the next-card button; the render that follows
\* re-runs the options memo when the card object changed
NextCardOf(tones) ==
  /\ QuizRendered
  /\ NextButtonShown(showAnswer)
  /\ showAnswer' = FALSE
  /\ selectedOption' = NoOption
  /\ currentCardIndex' = NextIndex(currentCardIndex, Len(deck))
  /\ LET card == CardAt(deck, currentCardIndex')
     IN IF card # memoCard
        THEN /\ memoCard' = card
             /\ options' \in Options(tones, card)
        ELSE UNCHANGED <<memoCard, options>>
  /\ presented' = Append(presented, CardAt(deck, currentCardIndex').id)
  /\ advances' = advances + 1
  /\ UNCHANGED <<currentTab, effectPending, deck, score, streak, bestStreak,
                 history, answers, priorSession>>
  /\ tipKey' = IF memoCard' # memoCard THEN tipKey + 1 ELSE tipKey
  /\ adviceLoading' = FALSE
  /\ tip' = Null
  /\ calls' = Unmounted(calls, {"advice"})
  /\ UNCHANGED <<root, matchVars, seasonalVars, invocations, requests>>
  /\ UNCHANGED settingsVars

NextCard == NextCardOf(QuizTones)

Range(seq) == {seq[i] : i \in 1..Len(seq)}

Next ==
  \/ \E t \in Tabs : SetTab(t)
  \/ LoadDeck
  \/ \E toneId \in Range(options) : HandleGuess(toneId)
  \/ NextCard

Spec == Init /\ [][Next]_vars

\* ----------------------------------------------------- settings operations

\* a getSettings() call of App.jsx (callOpenAI, the settings dialog opening)
Resolve ==
  /\ resolved' = AppGetSettings(env, storage)
  /\ UNCHANGED <<env, storage>>
  /\ UNCHANGED quizVars
  /\ UNCHANGED advisoryVars

\* SettingsModal.handleSave: the form is stored under the settings key
HandleSave(formData) ==
  /\ storage' = Stringify(formData)
  /\ UNCHANGED <<env, resolved>>
  /\ UNCHANGED quizVars
  /\ UNCHANGED advisoryVars

\* SettingsModal.handleReset: the entry is removed and the form reloaded
HandleReset ==
  /\ storage' = NoEntry
  /\ resolved' = AppGetSettings(env, NoEntry)
  /\ UNCHANGED env
  /\ UNCHANGED quizVars
  /\ UNCHANGED advisoryVars

\* any build-time configuration, and any entry left in the browser's storage
SettingsInit ==
  /\ AppInitial
  /\ env \in Envs
  /\ storage \in StorageSnapshots
  /\ resolved = NotResolved

SettingsNext ==
  \/ Resolve
  \/ \E formData \in Forms : HandleSave(formData)
  \/ HandleReset

SpecSettings == SettingsInit /\ [][SettingsNext]_vars

\* ------------------------------------------------------ advisory operations

Roots == {"App", "SeasonalColorAnalysis"}

\* callOpenAI that keeps the settings it resolved once
CallOpenAICached(envv, st) ==
  LET got == IF resolved.outcome = "returned" THEN resolved
             ELSE AppGetSettings(envv, st)
  IN IF got.outcome = "threw"
     THEN [does |-> "throws", resolved |-> got]
     ELSE IF ~Truthy(got.settings.apiKey)
     THEN [does |-> "returns", resolved |-> got]
     ELSE [does |-> "fetches", resolved |-> got]

\* callOpenAI that fetches without looking at the credential
CallOpenAIAnyKey(envv, st) ==
  LET got == AppGetSettings(envv, st)
  IN IF got.outcome = "threw"
     THEN [does |-> "throws", resolved |-> got]
     ELSE [does |-> "fetches", resolved |-> got]

\* callOpenAI up to its fetch: it resolves the settings, and then throws what
\* getSettings threw, returns the missing-key message, or fetches
CallOpenAI(envv, st) ==
  LET got == AppGetSettings(envv, st)
  IN IF got.outcome = "threw"
     THEN [does |-> "throws", resolved |-> got]
     ELSE IF ~Truthy(got.settings.apiKey)
     THEN [does |-> "returns", resolved |-> got]
     ELSE [does |-> "fetches", resolved |-> got]

\* a fetch in flight: its number, the operation it serves, whether the
\* component that awaits it is still mounted, the settings it was sent with
\* and what it asks about
NewCall(id, op, settings, about) ==
  [id |-> id, op |-> op, live |-> TRUE, settings |-> settings, about |-> about]

\* what AIContextButton holds as its tip: the text, with the card and the
\* wrapper key it was asked under
TipOf(text, card, key) == [text |-> text, card |-> card, tipKey |-> key]

\* AIContextButton.getAdvice up to the fetch of callOpenAI, reached through
\* the ask button, which is rendered while the result of a card is shown and
\* no tip is held, and is disabled while loading.  Without a fetch the
\* awaited promise is already settled, so the rest of the handler runs before
\* any other event and the loading flag is false again at the end.
GetAdvice ==
  /\ root = "App"
  /\ QuizRendered /\ showAnswer
  /\ tip = Null
  /\ ~adviceLoading
  /\ invocations < MaxCalls
  /\ invocations' = invocations + 1
  /\ LET call == CallOpenAI(env, storage)
     IN /\ resolved' = call.resolved
        /\ CASE call.does = "throws" ->
                  /\ tip' = TipOf(CannotReachText, CurrentCard.id, tipKey)
                  /\ UNCHANGED <<adviceLoading, calls, requests>>
             [] call.does = "returns" ->
                  /\ tip' = TipOf(NoKeyText, CurrentCard.id, tipKey)
                  /\ UNCHANGED <<adviceLoading, calls, requests>>
             [] call.does = "fetches" ->
                  /\ adviceLoading' = TRUE
                  /\ requests' = Fetch(requests)
                  /\ calls' = calls \cup
                       {NewCall(requests', "advice", call.resolved.settings,
                                <<CurrentCard.id, tipKey>>)}
                  /\ UNCHANGED tip
  /\ UNCHANGED <<env, storage>>
  /\ UNCHANGED quizVars
  /\ UNCHANGED <<root, tipKey, matchVars, seasonalVars>>

\* the rest of getAdvice once the fetch has ended: setTip with whatever
\* callOpenAI returned, then setLoading(false); nothing when the button that
\* asked is no longer mounted
AdviceArrives(call, response) ==
  /\ call \in calls
  /\ call.op = "advice"
  /\ calls' = calls \ {call}
  /\ IF call.live
     THEN /\ tip' = TipOf(CallOpenAIReturn(response), call.about[1], call.about[2])
          /\ adviceLoading' = FALSE
     ELSE UNCHANGED <<tip, adviceLoading>>
  /\ UNCHANGED settingsVars
  /\ UNCHANGED quizVars
  /\ UNCHANGED <<root, tipKey, matchVars, seasonalVars, invocations, requests>>

\* what a user types into the mood box
Inputs == {"", " ", "retro cafe"}

\* AILabView: onChange of the text box
SetInput(text) ==
  /\ root = "App"
  /\ currentTab = "ai"
  /\ text # input
  /\ input' = text
  /\ UNCHANGED settingsVars
  /\ UNCHANGED quizVars
  /\ UNCHANGED <<root, adviceVars, matchLoading, matchResult, seasonalVars,
                 callVars>>

\* AILabView.handleMatch up to the fetch of callOpenAI, reached through the
\* form, whose submit button is disabled while loading or without input; the
\* handler returns at once on blank input
HandleMatch ==
  /\ root = "App"
  /\ currentTab = "ai"
  /\ ~matchLoading /\ input # ""
  /\ Trim(input) # ""
  /\ invocations < MaxCalls
  /\ invocations' = invocations + 1
  /\ LET call == CallOpenAI(env, storage)
     IN /\ resolved' = call.resolved
        /\ CASE call.does = "throws" ->
                  /\ matchResult' = MatchError
                  /\ UNCHANGED <<matchLoading, calls, requests>>
             [] call.does = "returns" ->
                  /\ matchResult' = MatchResultOf(NoKeyText)
                  /\ UNCHANGED <<matchLoading, calls, requests>>
             [] call.does = "fetches" ->
                  /\ matchLoading' = TRUE
                  /\ matchResult' = Null
                  /\ requests' = Fetch(requests)
                  /\ calls' = calls \cup
                       {NewCall(requests', "match", call.resolved.settings,
                                input)}
  /\ UNCHANGED <<env, storage>>
  /\ UNCHANGED quizVars
  /\ UNCHANGED <<root, adviceVars, input, seasonalVars>>

\* the rest of handleMatch once the fetch has ended
MatchArrives(call, response) ==
  /\ call \in calls
  /\ call.op = "match"
  /\ calls' = calls \ {call}
  /\ IF call.live
     THEN /\ matchResult' = MatchResultOf(CallOpenAIReturn(response))
          /\ matchLoading' = FALSE
     ELSE UNCHANGED <<matchResult, matchLoading>>
  /\ UNCHANGED settingsVars
  /\ UNCHANGED quizVars
  /\ UNCHANGED <<root, adviceVars, input, seasonalVars, invocations, requests>>

\* a render of SeasonalColorAnalysis that throws takes the whole page down
Crashed == ResultRenderThrows(result)

\* handleImageUpload, reached through the file input, which is rendered
\* while there is neither a result nor a preview
HandleImageUpload(file) ==
  /\ root = "SeasonalColorAnalysis"
  /\ ~Crashed
  /\ result = Null /\ previewUrl = NoImage
  /\ IF file.size = "large"
     THEN /\ error' = TooLargeError
          /\ UNCHANGED reads
     ELSE /\ reads' = reads \cup {file.data}
          /\ UNCHANGED error
  /\ UNCHANGED settingsVars
  /\ UNCHANGED quizVars
  /\ UNCHANGED <<root, adviceVars, matchVars, image, previewUrl, loading,
                 result, callVars>>

\* reader.onloadend of handleImageUpload
ReadLoaded(data) ==
  /\ data \in reads
  /\ reads' = reads \ {data}
  /\ IF Crashed
     THEN UNCHANGED <<image, previewUrl, result, error>>
     ELSE /\ image' = data
          /\ previewUrl' = data
          /\ result' = Null
          /\ error' = NoError
  /\ UNCHANGED settingsVars
  /\ UNCHANGED quizVars
  /\ UNCHANGED <<root, adviceVars, matchVars, loading, callVars>>

\* analyzeImage up to its fetch, reached through the analyse button, which
\* is rendered while there is a preview, no result and no loading
AnalyzeImage ==
  /\ root = "SeasonalColorAnalysis"
  /\ ~Crashed
  /\ result = Null /\ previewUrl # NoImage /\ ~loading
  /\ invocations < MaxCalls
  /\ invocations' = invocations + 1
  /\ LET got == SeasonalGetSettings(env, storage)
     IN /\ resolved' = got
        /\ IF got.outcome = "threw"
           THEN UNCHANGED <<loading, error, calls, requests>>
           ELSE IF ~Truthy(got.settings.apiKey)
           THEN /\ error' = NoKeyError
                /\ UNCHANGED <<loading, calls, requests>>
           ELSE IF image = NoImage
           THEN /\ error' = NoImageError
                /\ UNCHANGED <<loading, calls, requests>>
           ELSE /\ loading' = TRUE
                /\ error' = NoError
                /\ requests' = requests + 1
                /\ calls' = calls \cup
                     {NewCall(requests', "analysis", got.settings, image)}
  /\ UNCHANGED <<env, storage>>
  /\ UNCHANGED quizVars
  /\ UNCHANGED <<root, adviceVars, matchVars, image, previewUrl, result, reads>>

\* the rest of analyzeImage once the fetch has ended: setResult with the
\* parsed content or setError, then setLoading(false)
AnalysisArrives(call, response) ==
  /\ call \in calls
  /\ call.op = "analysis"
  /\ calls' = calls \ {call}
  /\ IF Crashed
     THEN UNCHANGED <<result, error, loading>>
     ELSE /\ LET outcome == AnalysisOutcome(response)
             IN IF outcome.set = "result"
                THEN /\ result' = outcome.result
                     /\ UNCHANGED error
                ELSE /\ error' = outcome.error
                     /\ UNCHANGED result
          /\ loading' = FALSE
  /\ UNCHANGED settingsVars
  /\ UNCHANGED quizVars
  /\ UNCHANGED <<root, adviceVars, matchVars, image, previewUrl, reads,
                 invocations, requests>>

\* resetApp, reached through the X button on the preview or the
\* analyse-another-photo button under a result
ResetApp ==
  /\ root = "SeasonalColorAnalysis"
  /\ ~Crashed
  /\ previewUrl # NoImage \/ result # Null
  /\ image' = NoImage
  /\ previewUrl' = NoImage
  /\ result' = Null
  /\ error' = NoError
  /\ UNCHANGED settingsVars
  /\ UNCHANGED quizVars
  /\ UNCHANGED <<root, adviceVars, matchVars, loading, reads, callVars>>

\* the build-time configurations and settings forms of the advisory runs:
\* with and without a credential
AdvisoryEnvs == {NoEnv, [NoEnv EXCEPT !.apiKey = "env-value"]}
AdvisoryForms ==
  {f \in Forms : f.baseUrl = "saved-value" /\ f.model = "saved-value"
                 /\ f.apiKey \in {"", "saved-value"}}

\* the quiz of the advisory runs: the cards of one tone in a few hues
AdviceQuizTones == SliceFront(TONES, 1)
AdviceQuizHues == SliceFront(HUES, AdviceHues)

\* either page right after it is opened, with nothing stored yet
AdvisoryInit ==
  /\ root \in Roots
  /\ currentTab = "learn"
  /\ effectPending = FALSE
  /\ priorSession = FALSE
  /\ QuizInitial
  /\ AdvisoryInitial
  /\ env \in AdvisoryEnvs
  /\ storage = NoEntry
  /\ resolved = NotResolved

\* the end of a fetch, with whatever the endpoint answers
Arrives ==
  \E call \in calls, response \in Responses :
    \/ AdviceArrives(call, response)
    \/ MatchArrives(call, response)
    \/ AnalysisArrives(call, response)

AdvisoryNext ==
  \/ \E t \in Tabs : root = "App" /\ SetTab(t)
  \/ LoadDeckOf(AdviceQuizTones, AdviceQuizHues)
  \/ \E toneId \in Range(options) :
       Len(answers) < MaxAdviceAnswers /\ HandleGuess(toneId)
  \/ NextCardOf(AdviceQuizTones)
  \/ GetAdvice
  \/ \E text \in Inputs : SetInput(text)
  \/ HandleMatch
  \/ \E file \in Files : HandleImageUpload(file)
  \/ \E data \in reads : ReadLoaded(data)
  \/ AnalyzeImage
  \/ ResetApp
  \/ Arrives

SpecAdvisory == AdvisoryInit /\ [][AdvisoryNext]_vars

\* every fetch ends at some time
SpecAdvisoryFair == SpecAdvisory /\ WF_vars(Arrives)

\* mood matching next to the settings dialog, which saves and resets the
\* stored entry between the calls
CallsInit ==
  /\ AppInitial
  /\ env \in AdvisoryEnvs
  /\ storage = NoEntry
  /\ resolved = NotResolved

CallsNext ==
  \/ \E t \in Tabs : SetTab(t)
  \/ LoadDeckOf(AdviceQuizTones, AdviceQuizHues)
  \/ \E text \in Inputs : SetInput(text)
  \/ HandleMatch
  \/ \E call \in calls, response \in Responses : MatchArrives(call, response)
  \/ \E formData \in AdvisoryForms : HandleSave(formData)
  \/ HandleReset

SpecCalls == CallsInit /\ [][CallsNext]_vars

\* the quiz on the deck of the whole catalogues, as the application runs it
FullNext ==
  \/ \E t \in Tabs : SetTab(t)
  \/ LoadDeckOf(TONES, HUES)
  \/ \E toneId \in Range(options) :
       Len(answers) < MaxFullAnswers /\ HandleGuess(toneId)
  \/ NextCardOf(TONES)

SpecFull == Init /\ [][FullNext]_vars

\* ------------------------------------------------------------- properties

\* a step inside one quiz session (QuizView stays mounted)
SameSession == currentTab = "quiz" /\ currentTab' = "quiz"
\* a step that submits an answer / that advances to the next card
Submitted == Len(answers') = Len(answers) + 1
Advanced == advances' = advances + 1
AwaitingAnswer == QuizRendered /\ ~showAnswer
ShowingResult == QuizRendered /\ showAnswer

ToneIds == {TONES[i].id : i \in 1..Len(TONES)}
CorrectCount(log) == Cardinality({i \in 1..Len(log) : log[i]})
\* number of TRUE entries at the end of log
TrailingRun(log) ==
  CHOOSE k \in 0..Len(log) :
    /\ \A i \in (Len(log) - k + 1)..Len(log) : log[i]
    /\ k < Len(log) => ~log[Len(log) - k]

\* C1: a submitted answer in AwaitingAnswer leads to ShowingResult; a correct
\* one adds exactly 10 to the score and 1 to the streak and makes best-streak
\* the maximum of its old value and the new streak; an incorrect one sets the
\* streak to 0 and leaves score and best-streak unchanged.
C1_SubmitAnswer ==
  [][(Submitted /\ AwaitingAnswer) =>
       /\ ShowingResult'
       /\ LET correct == selectedOption' = CurrentCard.toneId
          IN /\ correct => /\ score' = score + 10
                           /\ streak' = streak + 1
                           /\ bestStreak' = (IF bestStreak > streak + 1
                                             THEN bestStreak ELSE streak + 1)
             /\ ~correct => /\ streak' = 0
                            /\ score' = score
                            /\ bestStreak' = bestStreak]_vars

\* a correct first answer followed by an incorrect second one
C1_Witness ==
  /\ ShowingResult
  /\ answers = <<TRUE, FALSE>>
  /\ score = 10 /\ streak = 0 /\ bestStreak = 1

OptionListOK(opts, card) ==
  /\ Len(opts) = 4
  /\ Cardinality(Range(opts)) = 4
  /\ Range(opts) \subseteq ToneIds
  /\ Cardinality({i \in 1..Len(opts) : opts[i] = card.toneId}) = 1

\* C2: while an answer is awaited the offered options are 4 distinct tones
\* with the current card's tone among them exactly once, they were computed
\* for the current card (not kept from an earlier card), and the same holds
\* for the options of every card of the deck (the deck is fixed once loaded,
\* so its cards are looked at in the states where it has just been loaded).
C2_OptionSet ==
  AwaitingAnswer =>
    /\ OptionListOK(options, CurrentCard)
    /\ memoCard = CurrentCard
    /\ advances = 0 =>
         \A i \in 1..Len(deck) :
           \A o \in Options(QuizTones, deck[i]) : OptionListOK(o, deck[i])

\* the third card is shown with its own options
C2_Witness ==
  /\ AwaitingAnswer
  /\ advances = 2
  /\ currentCardIndex = 2
  /\ CurrentCard.toneId \in Range(options)

\* C3: best-streak is never below the current streak, and inside a session
\* no step lowers it.
C3_BestStreak ==
  /\ [](bestStreak >= streak)
  /\ [][SameSession => bestStreak' >= bestStreak]_vars

\* a streak of two, a miss, then a new streak of one
C3_Witness ==
  /\ answers = <<TRUE, TRUE, FALSE, TRUE>>
  /\ bestStreak = 2 /\ streak = 1

\* C4: the history holds the last min(n, 5) of the n submitted outcomes, in
\* submission order.
C4_HistoryWindow ==
  LET n == Len(answers)
      m == IF n < 5 THEN n ELSE 5
  IN /\ Len(history) = m
     /\ Len(history) <= 5
     /\ \A i \in 1..m : history[i] = answers[n - m + i]

\* more than five answers, the first of which has been evicted
C4_Witness ==
  /\ Len(answers) > 5
  /\ answers[1] = FALSE
  /\ history = <<TRUE, FALSE, TRUE, TRUE, FALSE>>

\* C5: the score is a natural number, ten times the number of correct
\* answers of the session, and no step inside a session lowers it.
C5_Score ==
  /\ [](score \in Nat /\ score = 10 * CorrectCount(answers))
  /\ [][SameSession => score' >= score]_vars

\* three correct answers out of five
C5_Witness ==
  /\ answers = <<TRUE, FALSE, TRUE, FALSE, TRUE>>
  /\ score = 30

\* C6: the streak is the number of correct answers since the last incorrect
\* one (or since the start), and advancing leaves it unchanged.
C6_Streak ==
  /\ [](streak = TrailingRun(answers))
  /\ [][Advanced => streak' = streak]_vars

\* a miss followed by three correct answers, seen after advancing
C6_Witness ==
  /\ AwaitingAnswer
  /\ answers = <<TRUE, FALSE, TRUE, TRUE, TRUE>>
  /\ advances = 5
  /\ streak = 3

\* C7: advancing from ShowingResult leads to AwaitingAnswer at index
\* (index + 1) modulo the deck length.
C7_Advance ==
  [][(Advanced /\ ShowingResult) =>
       /\ AwaitingAnswer'
       /\ currentCardIndex' = (currentCardIndex + 1) % Len(deck)
       /\ (currentCardIndex = Len(deck) - 1 => currentCardIndex' = 0)]_vars

\* the deck has been walked through once and the index is back at 0
C7_Witness ==
  /\ AwaitingAnswer
  /\ advances = Len(deck)
  /\ currentCardIndex = 0

\* C8: with a loaded deck the index is inside the deck, so the current card
\* is defined.
C8_IndexInRange ==
  Len(deck) # 0 =>
    /\ currentCardIndex \in 0..(Len(deck) - 1)
    /\ CurrentCard # NoCard
    /\ \E i \in 1..Len(deck) : deck[i] = CurrentCard

\* the last card of the deck has been answered
C8_Witness ==
  /\ ShowingResult
  /\ currentCardIndex = Len(deck) - 1
  /\ advances = Len(deck) - 1
  /\ Len(answers) = Len(deck)

\* C9: in ShowingResult no answer is scored: no step taken there adds an
\* outcome, a step that stays there changes none of score, streak,
\* best-streak, history, selected answer and index, and so a session never
\* holds more outcomes than cards shown.
C9_NoRescoring ==
  /\ [](Len(answers) <= advances + 1)
  /\ [][ShowingResult =>
          /\ ~Submitted
          /\ (ShowingResult' =>
                UNCHANGED <<score, streak, bestStreak, history,
                            selectedOption, currentCardIndex>>)]_vars

\* a result is showing for the third card, whose options still exist
C9_Witness ==
  /\ ShowingResult
  /\ Len(answers) = 3 /\ advances = 2
  /\ selectedOption \in Range(options)

\* C10: inside a session the index changes, and an advance happens, only
\* from ShowingResult, and answers and advances alternate: the number of
\* answers is the number of advances, plus one while a result is showing.
C10_Alternation ==
  /\ [](Len(answers) = advances + (IF showAnswer THEN 1 ELSE 0))
  /\ [][(SameSession /\ (currentCardIndex' # currentCardIndex \/ Advanced))
          => ShowingResult /\ AwaitingAnswer']_vars

\* four cards answered and advanced past
C10_Witness ==
  /\ AwaitingAnswer
  /\ Len(answers) = 4 /\ advances = 4
  /\ currentCardIndex = 4

\* some option button is on screen to be pressed / the next-card button is
SubmitEnabled ==
  QuizRendered /\ OptionButtonsShown(showAnswer) /\ Range(options) # {}
AdvanceEnabled == QuizRendered /\ NextButtonShown(showAnswer)

\* C11: once the deck is loaded the quiz never stops: while a result is
\* showing the session can advance, while an answer is awaited an answer can
\* be submitted, and never both.
C11_NoTerminalState ==
  QuizRendered =>
    /\ ~(SubmitEnabled /\ AdvanceEnabled)
    /\ showAnswer => AdvanceEnabled
    /\ ~showAnswer => SubmitEnabled

\* the first card is up again after a full pass and can still be answered
C11_Witness ==
  /\ AwaitingAnswer
  /\ advances = Len(deck)
  /\ Len(presented) = Len(deck) + 1
  /\ SubmitEnabled

\* a and b hold the same entries the same number of times
SameEntries(a, b) ==
  /\ Len(a) = Len(b)
  /\ \A x \in Range(a) \cup Range(b) :
       Cardinality({i \in 1..Len(a) : a[i] = x})
         = Cardinality({i \in 1..Len(b) : b[i] = x})

\* C12: entering the quiz tab mounts a session with index 0, score 0, streak
\* 0, best-streak 0, empty history and no answer showing, and the mount
\* effect then leaves it in AwaitingAnswer with the same values on a shuffle
\* of the generated deck, whatever an earlier session had reached.
C12_FreshSession ==
  /\ [][(currentTab # "quiz" /\ currentTab' = "quiz") =>
          /\ currentCardIndex' = 0 /\ ~showAnswer' /\ selectedOption' = NoOption
          /\ score' = 0 /\ streak' = 0 /\ bestStreak' = 0 /\ history' = <<>>]_vars
  /\ [][(effectPending /\ ~effectPending') =>
          /\ AwaitingAnswer'
          /\ currentCardIndex' = 0
          /\ score' = 0 /\ streak' = 0 /\ bestStreak' = 0 /\ history' = <<>>
          /\ SameEntries(deck', GenerateDeck(QuizTones, QuizHues))]_vars

\* a fresh session after an earlier one that had scored answers
C12_Witness ==
  /\ AwaitingAnswer
  /\ priorSession
  /\ Len(presented) = 1 /\ answers = <<>>
  /\ score = 0 /\ bestStreak = 0 /\ currentCardIndex = 0

\* C13 as stated: a quiz session whose deck is empty signals an InvalidDeck
\* error.
C13_InvalidDeckSignalled ==
  (currentTab = "quiz" /\ Len(deck) = 0) => QuizViewRender(deck) = "InvalidDeck"

\* C13: while the deck of a mounted quiz is empty (before the mount effect
\* has loaded it) the loading placeholder is rendered instead of a card, no
\* card has been shown and neither button is on screen; answers and advances
\* are applied only on a non-empty deck, and once the effect has run the
\* deck is not empty.
C13_EmptyDeckGuard ==
  /\ []((currentTab = "quiz" /\ Len(deck) = 0) =>
          /\ QuizViewRender(deck) = "loading"
          /\ ~SubmitEnabled /\ ~AdvanceEnabled
          /\ presented = <<>> /\ options = <<>>)
  /\ []((currentTab = "quiz" /\ ~effectPending) => Len(deck) # 0)
  /\ [][(Submitted \/ Advanced) => (Len(deck) # 0 /\ QuizRendered)]_vars

\* QuizView is mounted and its deck is still empty
C13_Witness ==
  /\ currentTab = "quiz"
  /\ effectPending
  /\ Len(deck) = 0
  /\ QuizViewRender(deck) = "loading"

\* C14: an advance leaves score, streak, best-streak, history and the deck
\* unchanged; a submitted answer leaves the index and the deck unchanged; a
\* loaded deck keeps its order for the whole session; and no other step of
\* a running session changes the session state.
C14_Frames ==
  [][/\ Advanced => UNCHANGED <<score, streak, bestStreak, history, deck>>
     /\ Submitted => UNCHANGED <<currentCardIndex, deck>>
     /\ (SameSession /\ Len(deck) # 0) => deck' = deck
     /\ (SameSession /\ QuizRendered /\ ~Submitted /\ ~Advanced) =>
          UNCHANGED <<score, streak, bestStreak, history, currentCardIndex,
                      showAnswer, selectedOption, deck>>]_vars

\* two answers and two advances have been applied to one session
C14_Witness ==
  /\ AwaitingAnswer
  /\ answers = <<TRUE, TRUE>>
  /\ advances = 2
  /\ score = 20 /\ currentCardIndex = 2

HueOf(hueId) == HUES[CHOOSE j \in 1..Len(HUES) : HUES[j].id = hueId]
DeckIds(d) == {d[k].id : k \in 1..Len(d)}
CatalogIds ==
  {<<TONES[i].id, HUES[j].id>> : i \in 1..Len(TONES), j \in 1..Len(HUES)}

\* C15: whenever a session gets its deck, the deck has exactly 144 entries,
\* one for every (tone, hue) pair of the two twelve-element catalogues, no
\* composite id twice and none missing, and holds the same entries as the
\* unshuffled generated deck.
C15_DeckComplete ==
  [][(deck' # deck /\ deck' # <<>>) =>
       /\ Len(TONES) = 12 /\ Len(HUES) = 12
       /\ Len(deck') = 144
       /\ Cardinality(DeckIds(deck')) = 144
       /\ DeckIds(deck') = CatalogIds
       /\ SameEntries(deck', GenerateDeck(TONES, HUES))]_vars

\* a loaded 144-card deck whose order differs from the generated order
C15_Witness ==
  /\ QuizRendered
  /\ Len(deck) = 144
  /\ deck[1].id = <<"dkg", 24>>
  /\ deck[144].id = <<"v", 2>>

\* C16: among the cards shown in a session, any two shown less than a deck
\* length apart are different cards, and the first pass (as many cards as
\* the deck has) shows every card of the generated deck.
C16_NonRepeating ==
  /\ \A i, j \in 1..Len(presented) :
       (i < j /\ j - i < Len(deck)) => presented[i] # presented[j]
  /\ (Len(deck) # 0 /\ Len(presented) >= Len(deck)) =>
       {presented[i] : i \in 1..Len(deck)}
         = DeckIds(GenerateDeck(QuizTones, QuizHues))

\* the last card of the first pass is up: every card has been shown once
C16_Witness ==
  /\ AwaitingAnswer
  /\ Len(deck) > 1
  /\ Len(presented) = Len(deck)
  /\ Cardinality(Range(presented)) = Len(deck)

\* the lightness C17 expects for a catalogue pair
ExpectedLightness(tone, hue) ==
  IF tone.l < 50 /\ 30 < hue.h /\ hue.h < 60 THEN tone.l + 5 ELSE tone.l
\* the cards of d whose rendered lightness differs from their tone's
Boosted(d) ==
  {d[k].id : k \in {n \in 1..Len(d) : d[n].css.l # FindTone(TONES, d[n].toneId).l}}

\* C17: every card of a generated deck renders its hue's angle, its tone's
\* saturation and its tone's lightness, raised by 5 exactly when the tone's
\* lightness is below 50 and the hue angle lies strictly between 30 and 60;
\* over the catalogues these are the six tones s, dp, d, dk, g, dkg with
\* the two hues 6 and 8, and Vivid (lightness 50) is not raised.
C17_YellowBand ==
  [][(deck' # deck /\ deck' # <<>>) =>
       /\ \A k \in 1..Len(deck') :
            LET c == deck'[k]
                tone == FindTone(TONES, c.id[1])
                hue == HueOf(c.id[2])
            IN /\ c.toneId = tone.id
               /\ c.css.h = hue.h
               /\ c.css.s = tone.s
               /\ c.css.l = ExpectedLightness(tone, hue)
       /\ Boosted(deck') =
            {<<t, h>> : t \in {"s", "dp", "d", "dk", "g", "dkg"}, h \in {6, 8}}]_vars

\* a loaded deck with Deep/Orange raised to 35 and Vivid/Orange left at 50
C17_Witness ==
  /\ QuizRendered
  /\ \E k \in 1..Len(deck) : deck[k].id = <<"dp", 6>> /\ deck[k].css.l = 35
  /\ \E k \in 1..Len(deck) : deck[k].id = <<"v", 6>> /\ deck[k].css.l = 50
  /\ \E k \in 1..Len(deck) : deck[k].id = <<"dp", 10>> /\ deck[k].css.l = 30

\* a step in which a getSettings() call returned a new result
Returned == resolved' # resolved /\ resolved'.outcome = "returned"
\* the persisted override of a field: the field of the stored object, if any
Persisted(st, f) == IF st.kind = "object" THEN st.rec[f] ELSE Absent
NonEmpty(x) == x # Absent /\ x # ""

\* C18: each field of the returned settings is, on its own, the persisted
\* override if that is present and non-empty, otherwise the build-time value
\* if that is non-empty, otherwise the fallback, which is non-empty for
\* baseUrl and model and empty for the credential.
C18_PerField ==
  [][Returned =>
       /\ \A f \in Fields :
            resolved'.settings[f] =
              (IF NonEmpty(Persisted(storage', f)) THEN Persisted(storage', f)
               ELSE IF NonEmpty(env[f]) THEN env[f]
               ELSE AppFallback[f])
       /\ AppFallback.baseUrl # "" /\ AppFallback.model # ""
       /\ AppFallback.apiKey = ""]_vars

\* a stored record that sets only the model, resolved next to a build-time
\* base URL and no credential anywhere
C18_Witness ==
  /\ storage = Stringify([baseUrl |-> Absent, apiKey |-> Absent,
                          model |-> "saved-value"])
  /\ env = [baseUrl |-> "env-value", apiKey |-> Absent, model |-> "env-value"]
  /\ resolved = [outcome |-> "returned",
                 settings |-> [baseUrl |-> "env-value", apiKey |-> "",
                               model |-> "saved-value"]]

\* C19: a persisted field that is absent, empty or whitespace-only resolves,
\* in both getSettings functions, to the build-time value or else the
\* fallback, never to the blank string.
C19_BlankIsAbsent ==
  [][Returned =>
       \A f \in Fields :
         Persisted(storage', f) \in {Absent, "", " "} =>
           /\ resolved'.settings[f] = Or(env[f], AppFallback[f])
           /\ SeasonalGetSettings(env, storage').settings[f]
                = Or(env[f], SeasonalFallback[f])]_vars

\* C20: no getSettings() call raises, whatever is stored under the settings
\* key and whatever the build-time configuration is, and every field of the
\* returned record is a string.
C20_NeverRaises ==
  /\ resolved.outcome # "threw"
  /\ resolved.outcome = "returned" =>
       \A f \in Fields : resolved.settings[f] # Absent

\* a step in which the user invoked an advisory operation, and the fetches
\* issued in a step
Invoked == invocations' = invocations + 1
Issued == {c \in calls' : \A d \in calls : d.id # c.id}

\* C21: every call of an advisory operation of App.jsx resolves the settings
\* anew from what is stored at that moment and sends its request with them:
\* a field saved non-empty by the settings dialog is used by the very next
\* call, after a reset the very next call uses the build-time value or the
\* fallback, and what an earlier call resolved plays no part.
C21_ResolvedFresh ==
  [][(Invoked /\ root = "App") =>
       /\ resolved' = AppGetSettings(env, storage)
       /\ \A c \in Issued : c.settings = resolved'.settings
       /\ \A f \in Fields :
            /\ NonEmpty(Persisted(storage, f)) =>
                 resolved'.settings[f] = Persisted(storage, f)
            /\ storage = NoEntry =>
                 resolved'.settings[f] = Or(env[f], AppFallback[f])]_vars

\* a request sent with the saved credential is still in flight when, after
\* a reset, the next call has resolved the build-time credential
C21_Witness ==
  /\ invocations = 2
  /\ storage = NoEntry
  /\ resolved.outcome = "returned" /\ resolved.settings.apiKey = "env-value"
  /\ \E c \in calls : c.settings.apiKey = "saved-value"
  /\ \E c \in calls : c.settings.apiKey = "env-value"

\* C22: both getSettings functions return the same settings for the same
\* stored entry and build-time values, and with nothing stored and nothing
\* configured at build time each of them returns the base URL
\* https://models.inference.ai.azure.com and the model gpt-4o.
C22_OneResolver ==
  [][Returned =>
       /\ SeasonalGetSettings(env, storage') = resolved'
       /\ (env = NoEnv /\ storage' = NoEntry) =>
            \A r \in {resolved', SeasonalGetSettings(env, storage')} :
              /\ r.settings.baseUrl = "https://models.inference.ai.azure.com"
              /\ r.settings.model = "gpt-4o"]_vars

\* the call resolved an empty credential
EmptyCredential ==
  resolved'.outcome = "returned" /\ resolved'.settings.apiKey = ""

\* C23: an advisory operation that resolves an empty credential issues no
\* request: design advice, mood matching and seasonal analysis each end in
\* the same step with a failure message on display and loading false, and
\* no request in flight ever carries an empty credential.
C23_NoKeyNoRequest ==
  [][(Invoked /\ EmptyCredential) =>
       /\ requests' = requests
       /\ calls' = calls
       /\ \A c \in calls' : c.settings.apiKey # ""
       /\ ~adviceLoading' /\ ~matchLoading' /\ ~loading'
       /\ (root = "App" /\ currentTab = "quiz") =>
            tip' # Null /\ tip'.text = NoKeyText
       /\ (root = "App" /\ currentTab = "ai") =>
            matchResult' = MatchError
       /\ root = "SeasonalColorAnalysis" => error' = NoKeyError]_vars

\* design advice asked without a credential: the missing-key message is
\* shown, nothing was requested and nothing is loading
C23_Witness ==
  /\ tip # Null /\ tip.text = NoKeyText
  /\ ~adviceLoading
  /\ invocations > 0
  /\ requests = 0 /\ calls = {}

\* the answers of a failed call: a rejected fetch or a status that is not ok
FailedResponses == {r \in Responses : r.kind = "rejected" \/ ~r.ok}
OkResponse(content) == [kind |-> "response", ok |-> TRUE, content |-> content]

\* C24: a rejected fetch or a non-2xx response never ends in a success
\* outcome: mood matching ends with an error instead of a tone, seasonal
\* analysis with an error instead of a result, and no text returned for such
\* a call is taken as the design advice of a card.
C24_FailureNotAccepted ==
  /\ \A r \in FailedResponses :
       /\ MatchResultOf(CallOpenAIReturn(r)) = MatchError
       /\ AnalysisOutcome(r).set = "error"
  /\ tip # Null =>
       \A r \in FailedResponses : tip.text # CallOpenAIReturn(r)

\* the contents that are not of the shape an operation expects
NotJson == {c \in Contents \ {NoContent} : JsonParse(StripFences(c)).threw}
NotATone ==
  {c \in Contents \ {NoContent} :
     \/ c \in NotJson
     \/ StripFences(c).kind # "object"
     \/ StripFences(c).rec.id \notin ToneIds}
\* C25: content that is no JSON, names no tone of the catalogue or lacks the
\* fields of a seasonal result ends in an error message: mood matching
\* accepts no tone from it, seasonal analysis accepts no result from it, and
\* no page is taken down by rendering it.
C25_MalformedRejected ==
  /\ \A c \in NotATone : MatchResultOf(c) = MatchError
  /\ matchResult.kind = "tone" => matchResult.tone.id \in ToneIds
  /\ result # Null =>
       /\ result.characteristics # Absent
       /\ result.palette # Absent
  /\ ~Crashed

\* C26: a request is only ever issued in the step in which the user invokes
\* an operation, one invocation issues at most one request, and the end of a
\* request, failed or not, issues none.
C26_NoRetry ==
  [][/\ requests' \in {requests, requests + 1}
     /\ Cardinality(Issued) = requests' - requests
     /\ requests' # requests => Invoked
     /\ ~Invoked => Issued = {}
     /\ requests' <= invocations'
     /\ Cardinality(calls') <= requests']_vars

\* a failed analysis on display: its one request is over and none followed
C26_Witness ==
  /\ error = AnalysisFailed
  /\ ~loading
  /\ invocations = 1
  /\ requests = 1
  /\ calls = {}

\* C27: while a result is shown, the correctness displayed (the selected
\* option is the tone of the current card) is the outcome the answer was
\* scored with and the last entry of the history; while an answer is awaited
\* no option is selected.
C27_ShownIsScored ==
  /\ ShowingResult =>
       /\ selectedOption # NoOption
       /\ Len(answers) > 0 /\ Len(history) > 0
       /\ ShownCorrect = answers[Len(answers)]
       /\ ShownCorrect = history[Len(history)]
  /\ AwaitingAnswer => selectedOption = NoOption

\* a wrong answer on display after a right one, and the wait after a result
C27_Witness ==
  /\ ShowingResult
  /\ ~ShownCorrect
  /\ Len(answers) > 1 /\ answers[Len(answers) - 1]
  /\ score = 10

\* C28: seasonal analysis holds a result only while it holds an image,
\* whenever the answer of an analysis arrives between resets and uploads.
C28_ResultHasImage ==
  result # Null => image # NoImage

\* C29: a mood-matching or seasonal-analysis request that set loading to true
\* ends, once its fetch has ended, with loading false and exactly one of a
\* result and an error message, whatever the answer was; a mood matcher
\* that was left in the meantime is exempt.
C29_RequestSettles ==
  /\ matchLoading ~>
       (currentTab # "ai" \/ (~matchLoading /\ matchResult # Null))
  /\ loading ~>
       (~loading /\ ((result # Null) # (error # NoError)))

\* C30: the advice text on display was asked for the card on display under
\* the key of the mounted button, an answer arriving after the card was left
\* changes nothing, and every result that comes on display starts with no
\* advice text and no pending request.
C30_AdviceForCard ==
  [][/\ tip' # Null =>
          /\ root = "App" /\ QuizRendered' /\ showAnswer'
          /\ tip'.card = CurrentCard'.id
          /\ tip'.tipKey = tipKey'
     /\ (~showAnswer /\ showAnswer') => (tip' = Null /\ ~adviceLoading')
     /\ \A c \in calls :
          (c.op = "advice" /\ ~c.live /\ \A d \in calls' : d.id # c.id)
            => UNCHANGED <<tip, adviceLoading>>
     /\ adviceLoading' =>
          \E c \in calls' :
            c.op = "advice" /\ c.live /\ c.about = <<CurrentCard'.id, tipKey'>>]_vars

\* the result of the second card is on display without advice while the
\* request made for the first card is still in flight
C30_Witness ==
  /\ ShowingResult
  /\ Len(answers) = 2
  /\ tip = Null
  /\ \E c \in calls :
       c.op = "advice" /\ ~c.live /\ c.about[1] # CurrentCard.id

====
